---- MODULE Spec2Model ----
(***************************************************************************)
(* A model of mathemage/mage/image.py: the Image class (a height x width   *)
(* x 4 uint8 pixel array with an optional domain function), its pixel and  *)
(* mathematical indexing, negation, AND and drawable compositing.          *)
(*                                                                         *)
(* Conventions.                                                            *)
(*  - A numpy array is a window [base, r0, c0, shape] on a storage block   *)
(*    heap[base]; basic slicing gives another window on the same block.    *)
(*  - Rows, columns and channels are indexed from 0, as in the source.     *)
(*  - Floats are counted in half units: the float 0.5 is the number 1, the *)
(*    float -1.0 is -2.  An int used as a coordinate has its value doubled.*)
(*  - An index component is a tagged record: none, int, float or slice.    *)
(***************************************************************************)
EXTENDS Integers, Sequences, FiniteSets, TLC

VARIABLES heap, img, sub, op, res, before, nwrites

vars == <<heap, img, sub, op, res, before, nwrites>>

\* ------------------------------------------------------------------ bounds
\* Widths and heights range over 1..MaxDim.
MaxDim == 2
\* At most MaxWrites successful writes in a run.
MaxWrites == 2
\* At most MaxCalls successful composites in a run.
MaxCalls == 1

\* The opacity appended to an RGB colour.
FullAlpha == 255
\* The number of channels of a pixel.
Channels == 4
\* uint8 arithmetic is modulo 256.
Uint8Mod == 256

\* ------------------------------------------------------- index components
NoneC == [t |-> "none"]
IntC(v) == [t |-> "int", v |-> v]
FloatC(v) == [t |-> "float", v |-> v]
SliceC(a, b) == [t |-> "slice", start |-> a, stop |-> b]
FullSlice == SliceC(NoneC, NoneC)

\* An index as written by the caller: a bare component or a tuple of them.
Scalar(c) == [form |-> "scalar", c |-> c]
Tuple(cs) == [form |-> "tuple", cs |-> cs]

\* ---------------------------------------------------------------- results
NoValue == [k |-> "none"]
Raise(e) == [k |-> "error", e |-> e]
NoImage == [k |-> "none"]
NoArray == [k |-> "none"]

\* The two storage blocks: the main image's array and the array of the last
\* freshly allocated result.
MainBase == "main"
ResultBase == "result"
Unallocated == <<>>

\* ------------------------------------------------------------ numpy pieces
\* np.full((height, width, 4), fill)
np_full(h, w, fill) == [r \in 0..(h - 1) |-> [c \in 0..(w - 1) |-> fill]]

\* slice(start, stop).indices(n) for absent or non-negative bounds.
SliceLo(s, n) == IF s.start.t = "none" THEN 0
                 ELSE IF s.start.v > n THEN n ELSE s.start.v
SliceHi(s, n) == IF s.stop.t = "none" THEN n
                 ELSE IF s.stop.v > n THEN n ELSE s.stop.v
SliceLen(s, n) == IF SliceHi(s, n) > SliceLo(s, n)
                  THEN SliceHi(s, n) - SliceLo(s, n) ELSE 0

\* Image.width / Image.height of an array window.
width(nd) == nd.shape[2]
height(nd) == nd.shape[1]

\* The pixel of window nd at its row r, column c.
PixelAt(h, nd, r, c) == h[nd.base][nd.r0 + r][nd.c0 + c]

\* ------------------------------------------------------------ construction
\* An RGB lookalike is converted to RGBA (lines 68-70 and 238-241).
Widen(value) == IF Len(value) = 3 THEN value \o <<FullAlpha>> ELSE value

\* A variant that takes the shape as (width, height, 4).
ImageInitSwapped(w, h, domain, background, pixels, base) ==
    IF pixels.k # "none"
    THEN IF Len(pixels.shape) # 3 \/ pixels.shape[Len(pixels.shape)] # Channels
         THEN Raise("ValueError")
         ELSE [k |-> "Image", pixels |-> pixels, domain |-> domain,
               fresh |-> FALSE, data |-> Unallocated]
    ELSE IF w.t = "none" \/ h.t = "none"
         THEN Raise("ValueError")
         ELSE [k |-> "Image",
               pixels |-> [k |-> "nd", base |-> base, r0 |-> 0, c0 |-> 0,
                           shape |-> <<w.v, h.v, Channels>>],
               domain |-> domain,
               fresh |-> TRUE,
               data |-> np_full(w.v, h.v, Widen(background))]
\* Image.__init__: the error raised, or the image built.  fresh says that
\* the constructor allocated the array, whose contents are then data.
ImageInit(w, h, domain, background, pixels, base) ==
    IF pixels.k # "none"
    THEN IF Len(pixels.shape) # 3 \/ pixels.shape[Len(pixels.shape)] # Channels
         THEN Raise("ValueError")
         ELSE [k |-> "Image", pixels |-> pixels, domain |-> domain,
               fresh |-> FALSE, data |-> Unallocated]
    ELSE IF w.t = "none" \/ h.t = "none"
         THEN Raise("ValueError")
         ELSE [k |-> "Image",
               pixels |-> [k |-> "nd", base |-> base, r0 |-> 0, c0 |-> 0,
                           shape |-> <<h.v, w.v, Channels>>],
               domain |-> domain,
               fresh |-> TRUE,
               data |-> np_full(h.v, w.v, Widen(background))]

\* The image object, without the allocation record.
Obj(r) == [k |-> "Image", pixels |-> r.pixels, domain |-> r.domain]

\* ------------------------------------------------------------------ indexing
\* Image._flip_index
flip_index(index) ==
    IF index.form = "tuple"
    THEN IF Len(index.cs) = 2
         THEN <<index.cs[2], index.cs[1]>>
         ELSE <<index.cs[2], index.cs[1]>> \o SubSeq(index.cs, 3, Len(index.cs))
    ELSE <<FullSlice, index.c>>

\* Image._is_pixel_addr: the loop over the components, with its early return.
RECURSIVE pixel_addr_from(_, _)
pixel_addr_from(idx, i) ==
    IF i > Len(idx) THEN TRUE
    ELSE IF idx[i].t = "int" THEN pixel_addr_from(idx, i + 1)
    ELSE IF idx[i].t = "float" THEN FALSE
    ELSE IF idx[i].t = "slice"
            /\ (idx[i].start.t = "float" \/ idx[i].stop.t = "float")
         THEN FALSE
    ELSE pixel_addr_from(idx, i + 1)
is_pixel_addr(idx) == pixel_addr_from(idx, 1)

\* One axis of numpy basic indexing: an int picks, a slice ranges.
InRange(sel, n) == sel.t = "slice" \/ (sel.v >= 0 /\ sel.v < n)

\* self.pixels[index] for an index of ints and slices: a window when both
\* leading axes are sliced and the channel axis is untouched, a value otherwise.
SlicedWindow(nd, idx) ==
    [k |-> "nd", base |-> nd.base,
     r0 |-> nd.r0 + SliceLo(idx[1], height(nd)),
     c0 |-> nd.c0 + SliceLo(idx[2], width(nd)),
     shape |-> <<SliceLen(idx[1], height(nd)),
                 SliceLen(idx[2], width(nd)), Channels>>]
NdimOf(idx) == 3 - Cardinality({i \in 1..Len(idx) : idx[i].t = "int"})
ArrayValue(h, nd, idx) ==
    LET px(r, c) == IF Len(idx) = 2 THEN PixelAt(h, nd, r, c)
                    ELSE PixelAt(h, nd, r, c)[idx[3].v + 1]
        row(r) == IF idx[2].t = "int" THEN px(r, idx[2].v)
                  ELSE [i \in 1..SliceLen(idx[2], width(nd)) |->
                           px(r, SliceLo(idx[2], width(nd)) + i - 1)]
    IN IF idx[1].t = "int" THEN row(idx[1].v)
       ELSE [i \in 1..SliceLen(idx[1], height(nd)) |->
                row(SliceLo(idx[1], height(nd)) + i - 1)]

\* A variant in which the sub-image gets a copy of the window.
get_by_pixels_copy(h, image, idx) ==
    LET nd == image.pixels IN
    IF Len(idx) > 3 THEN Raise("IndexError")
    ELSE IF ~InRange(idx[1], height(nd)) \/ ~InRange(idx[2], width(nd))
            \/ (Len(idx) = 3 /\ ~InRange(idx[3], Channels))
         THEN Raise("IndexError")
    ELSE IF NdimOf(idx) = 3
         THEN LET win == SlicedWindow(nd, idx) IN
              [k |-> "Image",
               pixels |-> [k |-> "nd", base |-> ResultBase, r0 |-> 0,
                           c0 |-> 0, shape |-> win.shape],
               domain |-> "None", fresh |-> TRUE,
               data |-> [r \in 0..(height(win) - 1) |->
                         [c \in 0..(width(win) - 1) |-> PixelAt(h, win, r, c)]]]
         ELSE [k |-> "raw", ndim |-> NdimOf(idx), v |-> ArrayValue(h, nd, idx)]
\* Image._get_by_pixels: a 3-dimensional result is wrapped by
\* Image.fromarray, which adopts the window; anything else is returned raw.
get_by_pixels(h, image, idx) ==
    LET nd == image.pixels IN
    IF Len(idx) > 3 THEN Raise("IndexError")
    ELSE IF ~InRange(idx[1], height(nd)) \/ ~InRange(idx[2], width(nd))
            \/ (Len(idx) = 3 /\ ~InRange(idx[3], Channels))
         THEN Raise("IndexError")
    ELSE IF NdimOf(idx) = 3
         THEN ImageInit(NoneC, NoneC, "None", <<>>, SlicedWindow(nd, idx),
                        nd.base)
         ELSE [k |-> "raw", ndim |-> NdimOf(idx), v |-> ArrayValue(h, nd, idx)]

\* --------------------------------------------------------- domain functions
\* The domain functions the environment supplies, by name.  "centred" maps
\* column i to i - width/2 and row j to height/2 - j; "corner" maps column i
\* to i and row j to -j; "raises" fails when called.  Values in half units.
DomainGrids(name, w, h) ==
    IF name = "centred"
    THEN [k |-> "grids",
          XS |-> [r \in 0..(h - 1) |-> [c \in 0..(w - 1) |-> 2 * c - w]],
          YS |-> [r \in 0..(h - 1) |-> [c \in 0..(w - 1) |-> h - 2 * r]]]
    ELSE IF name = "corner"
    THEN [k |-> "grids",
          XS |-> [r \in 0..(h - 1) |-> [c \in 0..(w - 1) |-> 2 * c]],
          YS |-> [r \in 0..(h - 1) |-> [c \in 0..(w - 1) |-> 0 - 2 * r]]]
    ELSE Raise("DomainError")

Abs(x) == IF x < 0 THEN 0 - x ELSE x

\* The value of a slice bound as a coordinate (an int bound is a whole number).
Coord(b) == IF b.t = "int" THEN 2 * b.v ELSE b.v

\* sorted([(abs(x - bound), i) for i, x in enumerate(coords)])[0][1], or None
\* for an absent bound (lines 217-227): the head of the list sorted on
\* (distance, index).
PairLeq(p, q) == p[1] < q[1] \/ (p[1] = q[1] /\ p[2] <= q[2])
\* A variant of the ordering, and of the snap, that prefers the highest index
\* among equal distances.
PairGeqIndex(p, q) == p[1] < q[1] \/ (p[1] = q[1] /\ p[2] >= q[2])
ClosestLast(coords, bound) ==
    IF bound.t = "none" THEN NoneC
    ELSE LET pairs == {<<Abs(coords[i] - Coord(bound)), i>> : i \in DOMAIN coords}
             head == CHOOSE p \in pairs : \A q \in pairs : PairGeqIndex(p, q)
         IN IntC(head[2])
\* The snap of one slice bound: the index at the head of the sorted list.
Closest(coords, bound) ==
    IF bound.t = "none" THEN NoneC
    ELSE LET pairs == {<<Abs(coords[i] - Coord(bound)), i>> : i \in DOMAIN coords}
             head == CHOOSE p \in pairs : \A q \in pairs : PairLeq(p, q)
         IN IntC(head[2])

\* Steps 0-3 of the mathematical read (lines 203-232): the pixel-space index.
math_index(image, idx) ==
    LET nd == image.pixels
        g == DomainGrids(image.domain, width(nd), height(nd))
        xs == g.XS[0]
        ys == [r \in DOMAIN g.YS |-> g.YS[r][0]]
        yslice == idx[1]
        xslice == idx[2]
        slice_x == SliceC(Closest(xs, xslice.start), Closest(xs, xslice.stop))
        slice_y == SliceC(Closest(ys, yslice.stop), Closest(ys, yslice.start))
    IN <<slice_y, slice_x>>

\* Image.__getitem__: the value returned or the error raised.
getitem(h, image, index) ==
    LET idx == flip_index(index) IN
    IF is_pixel_addr(idx) THEN get_by_pixels(h, image, idx)
    ELSE IF image.domain = "None" THEN Raise("RuntimeError")
    ELSE IF idx[1].t # "slice" \/ idx[2].t # "slice" THEN Raise("ValueError")
    ELSE get_by_pixels(h, image, math_index(image, idx))

\* What a mutating handler leaves behind: the error raised ("None" when it
\* returns), the heap and the attached domain.
Outcome(e, h, d) == [e |-> e, heap |-> h, domain |-> d]

\* Whether position i of an axis of length n is selected by sel.
Selects(sel, n, i) ==
    IF sel.t = "int" THEN i = sel.v
    ELSE i >= SliceLo(sel, n) /\ i < SliceHi(sel, n)
\* A variant that writes at the index as given, without _flip_index.
setitem_unflipped(h, image, index, value) ==
    LET v == Widen(value)
        idx == IF index.form = "tuple" THEN index.cs ELSE <<FullSlice, index.c>>
        nd == image.pixels
    IN IF ~InRange(idx[1], height(nd)) \/ ~InRange(idx[2], width(nd))
       THEN Outcome("IndexError", h, image.domain)
       ELSE Outcome("None",
                [h EXCEPT ![nd.base] =
                 [r \in DOMAIN @ |-> [c \in DOMAIN @[r] |->
                     IF /\ r >= nd.r0 /\ r < nd.r0 + height(nd)
                        /\ c >= nd.c0 /\ c < nd.c0 + width(nd)
                        /\ Selects(idx[1], height(nd), r - nd.r0)
                        /\ Selects(idx[2], width(nd), c - nd.c0)
                     THEN v ELSE @[r][c]]]],
                image.domain)
\* Image.__setitem__: widen the value, flip the index, assign.
setitem(h, image, index, value) ==
    LET v == Widen(value)
        idx == flip_index(index)
        nd == image.pixels
    IN IF ~InRange(idx[1], height(nd)) \/ ~InRange(idx[2], width(nd))
       THEN Outcome("IndexError", h, image.domain)
       ELSE Outcome("None",
                [h EXCEPT ![nd.base] =
                 [r \in DOMAIN @ |-> [c \in DOMAIN @[r] |->
                     IF /\ r >= nd.r0 /\ r < nd.r0 + height(nd)
                        /\ c >= nd.c0 /\ c < nd.c0 + width(nd)
                        /\ Selects(idx[1], height(nd), r - nd.r0)
                        /\ Selects(idx[2], width(nd), c - nd.c0)
                     THEN v ELSE @[r][c]]]],
                image.domain)

\* ------------------------------------------------------------ image algebra
\* Image(pixels=px) for a freshly computed array px of the given shape and
\* contents: the array takes the result block.
FromFresh(shape, contents) ==
    LET r == ImageInit(NoneC, NoneC, "None", <<>>,
                       [k |-> "nd", base |-> ResultBase, r0 |-> 0, c0 |-> 0,
                        shape |-> shape], ResultBase)
    IN IF r.k = "error" THEN r
       ELSE [r EXCEPT !.fresh = TRUE, !.data = contents]

\* neg = lambda v: abs(v - 255), vectorised over Python ints, cast to uint8.
neg_channel(v) == Abs(v - 255) % Uint8Mod

\* alphas.shape = (width, height, 1): element (i, j) of the reshaped alpha
\* plane is element i * height + j of the row-major (height, width) plane.
ReshapedAlpha(h, nd, i, j) ==
    LET flat == i * height(nd) + j
    IN PixelAt(h, nd, flat \div width(nd), flat % width(nd))[4]

\* Image.__neg__: np.append(colors, alphas, axis=2) needs the (height, width)
\* colour planes and the (width, height) alpha plane to agree on both axes.
neg(h, image) ==
    LET nd == image.pixels
        colors_shape == <<height(nd), width(nd), 3>>
        alphas_shape == <<width(nd), height(nd), 1>>
    IN IF colors_shape[1] # alphas_shape[1] \/ colors_shape[2] # alphas_shape[2]
       THEN Raise("ValueError")
       ELSE FromFresh(<<colors_shape[1], colors_shape[2],
                        colors_shape[3] + alphas_shape[3]>>,
                      [r \in 0..(height(nd) - 1) |->
                       [c \in 0..(width(nd) - 1) |->
                        <<neg_channel(PixelAt(h, nd, r, c)[1]),
                          neg_channel(PixelAt(h, nd, r, c)[2]),
                          neg_channel(PixelAt(h, nd, r, c)[3]),
                          ReshapedAlpha(h, nd, r, c)>>]])

\* ax + bx on uint8 arrays of one shape.
array_sum(h, ax, bx) ==
    [r \in 0..(height(ax) - 1) |->
     [c \in 0..(width(ax) - 1) |->
      [ch \in 1..Channels |->
       (PixelAt(h, ax, r, c)[ch] + PixelAt(h, bx, r, c)[ch]) % Uint8Mod]]]

\* A variant without the isinstance check: other.pixels is reached first.
and_shape_first(h, image, other) ==
    IF other.k # "Image" THEN Raise("AttributeError")
    ELSE IF image.pixels.shape # other.pixels.shape THEN Raise("ValueError")
    ELSE FromFresh(image.pixels.shape, array_sum(h, image.pixels, other.pixels))
\* Image.__and__ with operand other: an Image of the state, or an object that
\* is no Image and has no pixels attribute.
and_(h, image, other) ==
    IF other.k # "Image" THEN Raise("TypeError")
    ELSE IF image.pixels.shape # other.pixels.shape THEN Raise("ValueError")
    ELSE FromFresh(image.pixels.shape, array_sum(h, image.pixels, other.pixels))

\* ---------------------------------------------------------------- drawables
\* The mask functions the environment supplies: "centre" selects the points
\* with -0.5 <= x < 0.5 and -0.5 < y <= 0.5, "right" the points with x >= 0,
\* "middle" the pixel whose column and row coordinates are those of the
\* grid's middle column and row, "raises" fails.
MaskOf(name, XS, YS) ==
    IF name = "centre"
    THEN [r \in DOMAIN XS |-> [c \in DOMAIN XS[r] |->
            XS[r][c] >= -1 /\ XS[r][c] < 1 /\ YS[r][c] > -1 /\ YS[r][c] <= 1]]
    ELSE IF name = "right"
    THEN [r \in DOMAIN XS |-> [c \in DOMAIN XS[r] |-> XS[r][c] >= 0]]
    ELSE [r \in DOMAIN XS |-> [c \in DOMAIN XS[r] |->
            /\ XS[r][c] = XS[0][Cardinality(DOMAIN XS[0]) \div 2]
            /\ YS[r][c] = YS[Cardinality(DOMAIN YS) \div 2][0]]]

\* The colour functions the environment supplies: "shade" is white where
\* x >= 0 and black elsewhere, "raises" fails.
ColourOf(name, x, y) ==
    IF x >= 0 THEN <<255, 255, 255, 255>> ELSE <<0, 0, 0, 255>>

\* A variant that adopts the drawable's domain before the mask and the
\* colour are computed.
call_adopt_first(h, image, f, overwrite_domain, use_host_domain) ==
    LET nd == image.pixels
        adopted == IF overwrite_domain /\ ~use_host_domain
                   THEN f.domainfunc ELSE image.domain
    IN
    IF use_host_domain /\ image.domain = "None"
    THEN Outcome("RuntimeError", h, image.domain)
    ELSE LET g == DomainGrids(IF use_host_domain THEN image.domain
                              ELSE f.domainfunc, width(nd), height(nd))
         IN IF g.k = "error" THEN Outcome(g.e, h, image.domain)
            ELSE IF f.maskfunc = "raises" THEN Outcome("MaskError", h, adopted)
            ELSE LET mask == MaskOf(f.maskfunc, g.XS, g.YS) IN
                 IF f.colorfunc.t = "func" /\ f.colorfunc.f = "raises"
                 THEN Outcome("ColourError", h, adopted)
                 ELSE Outcome("None",
                       [h EXCEPT ![nd.base] =
                          [r \in DOMAIN @ |-> [c \in DOMAIN @[r] |->
                             IF mask[r][c]
                             THEN IF f.colorfunc.t = "tuple" THEN f.colorfunc.v
                                  ELSE ColourOf(f.colorfunc.f,
                                                g.XS[r][c], g.YS[r][c])
                             ELSE @[r][c]]]],
                       adopted)
\* A variant that paints every pixel, whatever the mask.
call_unmasked(h, image, f, overwrite_domain, use_host_domain) ==
    LET nd == image.pixels IN
    IF use_host_domain /\ image.domain = "None"
    THEN Outcome("RuntimeError", h, image.domain)
    ELSE LET g == DomainGrids(IF use_host_domain THEN image.domain
                              ELSE f.domainfunc, width(nd), height(nd))
         IN IF g.k = "error" THEN Outcome(g.e, h, image.domain)
            ELSE IF f.maskfunc = "raises"
            THEN Outcome("MaskError", h, image.domain)
            ELSE IF f.colorfunc.t = "func" /\ f.colorfunc.f = "raises"
                 THEN Outcome("ColourError", h, image.domain)
                 ELSE Outcome("None",
                       [h EXCEPT ![nd.base] =
                          [r \in DOMAIN @ |-> [c \in DOMAIN @[r] |->
                             IF f.colorfunc.t = "tuple" THEN f.colorfunc.v
                             ELSE ColourOf(f.colorfunc.f,
                                           g.XS[r][c], g.YS[r][c])]]],
                       IF overwrite_domain /\ ~use_host_domain
                       THEN f.domainfunc ELSE image.domain)
\* Image.__call__ for the drawable f = [domainfunc, maskfunc, colorfunc].
call(h, image, f, overwrite_domain, use_host_domain) ==
    LET nd == image.pixels IN
    IF use_host_domain /\ image.domain = "None"
    THEN Outcome("RuntimeError", h, image.domain)
    ELSE LET g == DomainGrids(IF use_host_domain THEN image.domain
                              ELSE f.domainfunc, width(nd), height(nd))
         IN IF g.k = "error" THEN Outcome(g.e, h, image.domain)
            ELSE IF f.maskfunc = "raises"
            THEN Outcome("MaskError", h, image.domain)
            ELSE LET mask == MaskOf(f.maskfunc, g.XS, g.YS) IN
                 IF f.colorfunc.t = "func" /\ f.colorfunc.f = "raises"
                 THEN Outcome("ColourError", h, image.domain)
                 ELSE Outcome("None",
                       [h EXCEPT ![nd.base] =
                          [r \in DOMAIN @ |-> [c \in DOMAIN @[r] |->
                             IF mask[r][c]
                             THEN IF f.colorfunc.t = "tuple" THEN f.colorfunc.v
                                  ELSE ColourOf(f.colorfunc.f,
                                                g.XS[r][c], g.YS[r][c])
                             ELSE @[r][c]]]],
                       IF overwrite_domain /\ ~use_host_domain
                       THEN f.domainfunc ELSE image.domain)

\* -------------------------------------------------------------------- inputs
Dim == 1..MaxDim
DimArgs == {IntC(n) : n \in Dim} \cup {NoneC}
Backgrounds == {<<255, 255, 255, 255>>, <<10, 20, 30>>}
WriteColours == {<<10, 20, 30>>, <<200, 100, 50, 128>>}

\* Pixel addresses name the corners of the largest buffer; on a smaller
\* buffer some of them are out of range.
Corner == {IntC(0), IntC(MaxDim - 1)}
CornerIndices == {Tuple(<<a, b>>) : a \in Corner, b \in Corner}
Windows == {FullSlice, SliceC(IntC(1), NoneC), SliceC(NoneC, IntC(1))}
WindowIndices == {Tuple(<<a, b>>) : a \in Windows, b \in Windows}

\* The operands of AND: something that is no Image, the image itself, the
\* held sub-buffer.
NotAnImage == [k |-> "object"]

\* ------------------------------------------------------------------- actions
Init ==
    /\ heap = [b \in {MainBase, ResultBase} |-> Unallocated]
    /\ img = NoImage
    /\ sub = NoImage
    /\ op = [name |-> "init"]
    /\ res = NoValue
    /\ before = [pixels |-> Unallocated, domain |-> "None"]
    /\ nwrites = 0

\* The main array and the attached domain as an operation finds them.
Snapshot ==
    [pixels |-> heap[MainBase],
     domain |-> IF img.k = "Image" THEN img.domain ELSE "None"]

\* The result block is reclaimed once nothing held refers to it.
UsesResult(x) == x.k = "Image" /\ x.pixels.base = ResultBase
Collect(h, r, s) ==
    IF UsesResult(r) \/ UsesResult(s) THEN h
    ELSE [h EXCEPT ![ResultBase] = Unallocated]

\* img = Image(width, height, domain, background)
Construct(w, h, d, bg) ==
    /\ img.k = "none"
    /\ before' = Snapshot
    /\ op' = [name |-> "construct", width |-> w, height |-> h,
              domain |-> d, background |-> bg]
    /\ \E r \in {ImageInit(w, h, d, bg, NoArray, MainBase)} :
       IF r.k = "error"
       THEN /\ res' = r
            /\ UNCHANGED <<heap, img>>
       ELSE /\ res' = NoValue
            /\ heap' = [heap EXCEPT ![MainBase] = r.data]
            /\ img' = Obj(r)
    /\ UNCHANGED <<sub, nwrites>>

Target(t) == IF t = "img" THEN img ELSE Obj(sub)
HasTarget(t) == IF t = "img" THEN img.k = "Image" ELSE sub.k = "Image"

\* res = target[index]; a sub-buffer read from img is then held as sub.
GetItem(t, index) ==
    /\ HasTarget(t)
    /\ before' = Snapshot
    /\ op' = [name |-> "getitem", target |-> t, index |-> index]
    /\ \E r \in {getitem(heap, Target(t), index)} :
       /\ res' = IF r.k = "Image" THEN Obj(r) ELSE r
       /\ sub' = IF t = "sub" THEN sub
                 ELSE IF r.k = "Image"
                 THEN [k |-> "Image", pixels |-> r.pixels, domain |-> r.domain,
                       index |-> index]
                 ELSE NoImage
       /\ heap' = IF r.k = "Image" /\ r.fresh
                  THEN [heap EXCEPT ![ResultBase] = r.data]
                  ELSE Collect(heap, r, sub')
    /\ UNCHANGED <<img, nwrites>>

\* target[index] = value
SetItem(t, index, value) ==
    /\ HasTarget(t)
    /\ nwrites < MaxWrites
    /\ before' = Snapshot
    /\ op' = [name |-> "setitem", target |-> t, index |-> index,
              value |-> value]
    /\ \E r \in {setitem(heap, Target(t), index, value)} :
       /\ heap' = Collect(r.heap, NoValue, sub)
       /\ res' = IF r.e = "None" THEN NoValue ELSE Raise(r.e)
       /\ nwrites' = IF r.e = "None" THEN nwrites + 1 ELSE nwrites
    /\ UNCHANGED <<img, sub>>

\* res = -img
Neg ==
    /\ img.k = "Image"
    /\ before' = Snapshot
    /\ op' = [name |-> "neg"]
    /\ \E r \in {neg(heap, img)} :
       IF r.k = "error"
       THEN /\ res' = r
            /\ heap' = Collect(heap, r, sub)
       ELSE /\ res' = Obj(r)
            /\ heap' = [heap EXCEPT ![ResultBase] = r.data]
    /\ UNCHANGED <<img, sub, nwrites>>

\* res = img & other
And(o) ==
    /\ img.k = "Image"
    /\ o = "sub" => sub.k = "Image"
    /\ before' = Snapshot
    /\ op' = [name |-> "and", other |-> o]
    /\ \E r \in {and_(heap, img, IF o = "self" THEN img
                                   ELSE IF o = "sub" THEN Obj(sub)
                                   ELSE NotAnImage)} :
       IF r.k = "error"
       THEN /\ res' = r
            /\ heap' = Collect(heap, r, sub)
       ELSE /\ res' = Obj(r)
            /\ heap' = [heap EXCEPT ![ResultBase] = r.data]
    /\ UNCHANGED <<img, sub, nwrites>>

\* img(f, overwrite_domain, use_host_domain)
Call(f, overwrite_domain, use_host_domain) ==
    /\ img.k = "Image"
    /\ nwrites < MaxCalls
    /\ before' = Snapshot
    /\ op' = [name |-> "call", f |-> f, overwrite_domain |-> overwrite_domain,
              use_host_domain |-> use_host_domain]
    /\ \E r \in {call(heap, img, f, overwrite_domain, use_host_domain)} :
       /\ heap' = Collect(r.heap, NoValue, sub)
       /\ img' = [img EXCEPT !.domain = r.domain]
       /\ res' = IF r.e = "None" THEN NoValue ELSE Raise(r.e)
       /\ nwrites' = IF r.e = "None" THEN nwrites + 1 ELSE nwrites
    /\ UNCHANGED sub

\* ------------------------------------------------------------ specifications
\* Spec: construction, pixel writes and pixel reads of a constructed buffer.
ReadIndices ==
    CornerIndices
    \cup {Scalar(IntC(0)), Tuple(<<IntC(0), IntC(0), IntC(3)>>),
          Tuple(<<IntC(0), FullSlice>>),
          Tuple(<<SliceC(IntC(1), NoneC), FullSlice>>)}
DoConstruct ==
    \E w \in DimArgs, h \in DimArgs, bg \in Backgrounds :
        Construct(w, h, "None", bg)
DoGetItem ==
    \/ \E index \in ReadIndices : GetItem("img", index)
    \/ \E index \in CornerIndices : GetItem("sub", index)
DoSetItem ==
    \E t \in {"img", "sub"}, index \in CornerIndices, value \in WriteColours :
        SetItem(t, index, value)

Next == DoConstruct \/ DoGetItem \/ DoSetItem

Spec == Init /\ [][Next]_vars

\* SpecView: sub-buffers read by pixel slices, and writes through the buffer
\* and through the sub-buffer it holds.
ViewConstruct ==
    \E w \in {IntC(n) : n \in Dim}, h \in {IntC(n) : n \in Dim} :
        Construct(w, h, "None", <<255, 255, 255, 255>>)
ViewGetItem == \E index \in WindowIndices : GetItem("img", index)
ViewSetItem ==
    \E t \in {"img", "sub"}, index \in CornerIndices :
        SetItem(t, index, <<10, 20, 30>>)

NextView == ViewConstruct \/ ViewGetItem \/ ViewSetItem

SpecView == Init /\ [][NextView]_vars

\* SpecAlgebra: negation and AND of buffers whose contents vary.
AlgebraConstruct ==
    \E w \in {IntC(n) : n \in Dim}, h \in {IntC(n) : n \in Dim},
       bg \in Backgrounds :
        Construct(w, h, "None", bg)
AlgebraSetItem ==
    \E index \in CornerIndices : SetItem("img", index, <<200, 100, 50, 128>>)
AlgebraGetItem ==
    \E index \in {Tuple(<<FullSlice, FullSlice>>),
                  Tuple(<<SliceC(IntC(1), NoneC), FullSlice>>)} :
        GetItem("img", index)
AlgebraNeg == Neg
AlgebraAnd == \E o \in {"object", "self", "sub"} : And(o)

NextAlgebra ==
    AlgebraConstruct \/ AlgebraSetItem \/ AlgebraGetItem \/ AlgebraNeg
    \/ AlgebraAnd

SpecAlgebra == Init /\ [][NextAlgebra]_vars

\* SpecDomain: buffers with and without a domain, composited drawables and
\* reads by mathematical (and other float-bearing) indices.
Paint == <<10, 20, 30, 255>>
Drawable(d, m, c) == [domainfunc |-> d, maskfunc |-> m, colorfunc |-> c]
Drawables ==
    {Drawable("centred", "centre", [t |-> "tuple", v |-> Paint]),
     Drawable("corner", "middle", [t |-> "tuple", v |-> Paint]),
     Drawable("centred", "right", [t |-> "func", f |-> "shade"]),
     Drawable("raises", "centre", [t |-> "tuple", v |-> Paint]),
     Drawable("centred", "raises", [t |-> "tuple", v |-> Paint]),
     Drawable("corner", "centre", [t |-> "func", f |-> "raises"])}
\* Slice bounds 0.0, -0.5, 0.5 and the int 1.
MathSlices == {SliceC(FloatC(0), NoneC), SliceC(FloatC(-1), FloatC(1)),
               SliceC(NoneC, FloatC(0)), SliceC(NoneC, IntC(1))}
MathIndices ==
    {Tuple(<<a, b>>) : a \in MathSlices, b \in MathSlices}
    \cup {Scalar(FloatC(1)),
          Scalar(SliceC(FloatC(0), NoneC)),
          Tuple(<<FloatC(0), FloatC(0)>>),
          Tuple(<<IntC(0), FloatC(0)>>),
          Tuple(<<SliceC(FloatC(0), NoneC), IntC(0)>>),
          Tuple(<<IntC(0), IntC(0), FloatC(0)>>),
          Tuple(<<SliceC(FloatC(-1), FloatC(1)), SliceC(FloatC(-1), FloatC(1)),
                  FloatC(0)>>)}
DomainConstruct ==
    \E w \in {IntC(n) : n \in Dim}, h \in {IntC(n) : n \in Dim},
       d \in {"None", "centred", "corner"} :
        Construct(w, h, d, <<255, 255, 255, 255>>)
DomainGetItem == \E index \in MathIndices : GetItem("img", index)
DomainCall ==
    \E f \in Drawables, overwrite_domain \in BOOLEAN,
       use_host_domain \in BOOLEAN :
        Call(f, overwrite_domain, use_host_domain)

NextDomain == DomainConstruct \/ DomainGetItem \/ DomainCall

SpecDomain == Init /\ [][NextDomain]_vars

\* -------------------------------------------------------------------- claims
\* What the claims call a colour widened to RGBA.
Rgba(c) == IF Len(c) = 3 THEN <<c[1], c[2], c[3], 255>> ELSE c
\* The value a read of one pixel returns.
PixelValue(v) == [k |-> "raw", ndim |-> 1, v |-> v]
At(x, y) == Tuple(<<IntC(x), IntC(y)>>)
IsPixelAddress(index) ==
    /\ index.form = "tuple"
    /\ Len(index.cs) = 2
    /\ index.cs[1].t = "int"
    /\ index.cs[2].t = "int"

\* C1: a successful write buffer[x, y] = c followed by the read buffer[x, y]
\* returns c widened to RGBA, and the write is in storage row y, column x.
C1_WriteThenRead ==
    [][(/\ op.name = "setitem"
        /\ res = NoValue
        /\ IsPixelAddress(op.index)
        /\ op'.name = "getitem"
        /\ op'.target = op.target
        /\ op'.index = op.index)
       => /\ res' = PixelValue(Rgba(op.value))
          /\ LET nd == Target(op.target).pixels IN
             heap'[nd.base][nd.r0 + op.index.cs[2].v][nd.c0 + op.index.cs[1].v]
                 = Rgba(op.value)]_vars

\* A read of pixel (x, y) with x # y returned the widened RGB colour on a
\* buffer whose pixel (y, x) still has the white background.
C1_Witness ==
    /\ op.name = "getitem"
    /\ op.target = "img"
    /\ IsPixelAddress(op.index)
    /\ op.index.cs[1].v # op.index.cs[2].v
    /\ res = PixelValue(<<10, 20, 30, 255>>)
    /\ getitem(heap, img, At(op.index.cs[2].v, op.index.cs[1].v))
           = PixelValue(<<255, 255, 255, 255>>)

\* C7: a buffer constructed from (w, h, c) has width w, height h, 4 channels
\* and every pixel equal to c widened to RGBA; without a width or a height
\* the construction fails with a ValueError and builds nothing.
C7_Construction ==
    op.name = "construct" =>
        IF op.width.t = "none" \/ op.height.t = "none"
        THEN res = Raise("ValueError") /\ img = NoImage
        ELSE /\ img.k = "Image"
             /\ width(img.pixels) = op.width.v
             /\ height(img.pixels) = op.height.v
             /\ img.pixels.shape = <<op.height.v, op.width.v, 4>>
             /\ \A x \in 0..(op.width.v - 1), y \in 0..(op.height.v - 1) :
                    getitem(heap, img, At(x, y))
                        = PixelValue(Rgba(op.background))

\* A buffer wider than high was built from an RGB background.
C7_Witness ==
    /\ op.name = "construct"
    /\ img.k = "Image"
    /\ width(img.pixels) > height(img.pixels)
    /\ Len(op.background) = 3

\* C10: a sub-buffer read as buffer[x0:x1, y0:y1] and its parent agree after
\* every step, sub-buffer pixel (i, j) being parent pixel (x0 + i, y0 + j),
\* and a write through the sub-buffer changes no parent pixel outside the
\* sliced region.
SubX0 == IF sub.index.cs[1].start.t = "none" THEN 0 ELSE sub.index.cs[1].start.v
SubY0 == IF sub.index.cs[2].start.t = "none" THEN 0 ELSE sub.index.cs[2].start.v
ViewAgrees ==
    sub.k = "Image" =>
        \A i \in 0..(width(sub.pixels) - 1), j \in 0..(height(sub.pixels) - 1) :
            LET got == getitem(heap, Obj(sub), At(i, j))
            IN got.k = "raw" /\ got = getitem(heap, img, At(SubX0 + i, SubY0 + j))
InSlicedRegion(x, y) ==
    /\ x >= SubX0 /\ x < SubX0 + width(sub.pixels)
    /\ y >= SubY0 /\ y < SubY0 + height(sub.pixels)
C10_SharedStorage ==
    /\ ViewAgrees
    /\ (op.name = "setitem" /\ op.target = "sub") =>
         \A x \in 0..(width(img.pixels) - 1),
            y \in 0..(height(img.pixels) - 1) :
             InSlicedRegion(x, y)
             \/ getitem(heap, img, At(x, y)).v = before.pixels[y][x]

\* A write through a sub-buffer that starts at column 1 of a parent with
\* pixels outside it has gone through.
C10_Witness ==
    /\ sub.k = "Image"
    /\ op.name = "setitem"
    /\ op.target = "sub"
    /\ res = NoValue
    /\ SubX0 = 1
    /\ getitem(heap, Obj(sub), At(0, 0)) = PixelValue(<<10, 20, 30, 255>>)
    /\ getitem(heap, img, At(0, 0)) = PixelValue(<<255, 255, 255, 255>>)

\* C2: the negation of a buffer of any width and height is a buffer of the
\* same width and height.
C2_NegPreservesShape ==
    op.name = "neg" =>
        /\ res.k = "Image"
        /\ width(res.pixels) = width(img.pixels)
        /\ height(res.pixels) = height(img.pixels)

\* C3: the negation has every colour channel equal to 255 minus the original
\* and the alpha channel equal to the original.
C3_NegInverts ==
    op.name = "neg" =>
        /\ res.k = "Image"
        /\ \A x \in 0..(width(img.pixels) - 1),
              y \in 0..(height(img.pixels) - 1) :
               LET p == getitem(heap, img, At(x, y)).v
               IN getitem(heap, res, At(x, y))
                      = PixelValue(<<255 - p[1], 255 - p[2], 255 - p[3], p[4]>>)

\* C6: a & b raises TypeError when b is no buffer and ValueError when b is a
\* buffer of other dimensions, and a failed AND leaves every buffer as it was.
AndOperand(o) == IF o = "self" THEN img ELSE IF o = "sub" THEN Obj(sub) ELSE NotAnImage
C6_AndFailures ==
    op.name = "and" =>
        /\ op.other = "object" => res = Raise("TypeError")
        /\ (/\ op.other # "object"
            /\ <<width(AndOperand(op.other).pixels),
                 height(AndOperand(op.other).pixels)>>
               # <<width(img.pixels), height(img.pixels)>>)
           => res = Raise("ValueError")
        /\ res.k = "error" =>
              /\ heap[MainBase] = before.pixels
              /\ img.domain = before.domain

\* AND with a held sub-buffer narrower than the buffer raised ValueError.
C6_Witness ==
    /\ op.name = "and"
    /\ op.other = "sub"
    /\ res = Raise("ValueError")
    /\ width(sub.pixels) < width(img.pixels)

\* The coordinates a domain gives the columns and the rows of the buffer.
ColumnCoords(d) ==
    DomainGrids(d, width(img.pixels), height(img.pixels)).XS[0]
RowCoords(d) ==
    LET YS == DomainGrids(d, width(img.pixels), height(img.pixels)).YS
    IN [r \in DOMAIN YS |-> YS[r][0]]
\* The lowest index whose coordinate is at the smallest distance from v.
Nearest(coords, v) ==
    CHOOSE i \in DOMAIN coords :
        /\ \A j \in DOMAIN coords : Abs(coords[i] - v) <= Abs(coords[j] - v)
        /\ \A j \in DOMAIN coords :
               j < i => Abs(coords[j] - v) > Abs(coords[i] - v)
Snapped(coords, b) ==
    IF b.t = "none" THEN NoneC
    ELSE IntC(Nearest(coords, IF b.t = "int" THEN 2 * b.v ELSE b.v))
HasFloatBound(c) == c.t = "slice" /\ (c.start.t = "float" \/ c.stop.t = "float")
IsMathSlices(index) ==
    /\ index.form = "tuple"
    /\ Len(index.cs) = 2
    /\ index.cs[1].t = "slice"
    /\ index.cs[2].t = "slice"
    /\ (HasFloatBound(index.cs[1]) \/ HasFloatBound(index.cs[2]))

\* C4: with a domain attached, buffer[xa:xb, ya:yb] with float bounds returns
\* what the pixel read of columns nx(xa):nx(xb) and rows ny(yb):ny(ya)
\* returns, nx and ny being the nearest column and row, lowest index first,
\* and an absent bound staying absent.
C4_MathRead ==
    (/\ op.name = "getitem"
     /\ IsMathSlices(op.index)
     /\ img.domain # "None")
    => LET xsl == op.index.cs[1]
           ysl == op.index.cs[2]
           xs == ColumnCoords(img.domain)
           ys == RowCoords(img.domain)
           columns == SliceC(Snapped(xs, xsl.start), Snapped(xs, xsl.stop))
           rows == SliceC(Snapped(ys, ysl.stop), Snapped(ys, ysl.start))
       IN /\ res.k = "Image"
          /\ res = Obj(get_by_pixels(heap, img, <<rows, columns>>))

\* A read by float bounds on both axes, with a tie between two columns,
\* returned a sub-buffer that is not empty.
C4_Witness ==
    /\ op.name = "getitem"
    /\ IsMathSlices(op.index)
    /\ img.domain = "centred"
    /\ op.index.cs[1] = SliceC(FloatC(-1), FloatC(1))
    /\ op.index.cs[2] = SliceC(FloatC(-1), FloatC(1))
    /\ width(img.pixels) = 2
    /\ res.k = "Image"
    /\ width(res.pixels) > 0
    /\ height(res.pixels) > 0

\* The drawable of the last call, its grids and what its mask selected.
CallDomain ==
    IF op.use_host_domain THEN before.domain ELSE op.f.domainfunc
Selected ==
    LET g == DomainGrids(CallDomain, width(img.pixels), height(img.pixels))
        mask == MaskOf(op.f.maskfunc, g.XS, g.YS)
    IN {rc \in (0..(height(img.pixels) - 1)) \X (0..(width(img.pixels) - 1)) :
            mask[rc[1]][rc[2]]}
CentreX == width(img.pixels) \div 2
CentreY == height(img.pixels) \div 2
CentreOnlyCall ==
    /\ op.name = "call"
    /\ res = NoValue
    /\ op.f.colorfunc.t = "tuple"
    /\ Selected = {<<CentreY, CentreX>>}
OnlyCentreChanged ==
    /\ heap[MainBase][CentreY][CentreX] = op.f.colorfunc.v
    /\ \A r \in 0..(height(img.pixels) - 1), c \in 0..(width(img.pixels) - 1) :
           <<r, c>> # <<CentreY, CentreX>>
           => heap[MainBase][r][c] = before.pixels[r][c]
\* The mathematical read buffer[0.0:, :0.0] starts at the centre pixel.
OriginRead ==
    getitem(heap, img, Tuple(<<SliceC(FloatC(0), NoneC), SliceC(NoneC, FloatC(0))>>))
ReadAtOriginIsCentre ==
    /\ OriginRead.k = "Image"
    /\ OriginRead.pixels.c0 = CentreX
    /\ OriginRead.pixels.r0 = CentreY

OriginIsCentre(d) ==
    /\ Nearest(ColumnCoords(d), 0) = CentreX
    /\ Nearest(RowCoords(d), 0) = CentreY
BearsFloat(idx) ==
    \E i \in 1..Len(idx) : idx[i].t = "float" \/ HasFloatBound(idx[i])
ExactlyTwoSlices(idx) ==
    Len(idx) = 2 /\ idx[1].t = "slice" /\ idx[2].t = "slice"
C8_MathReadFailures ==
    (op.name = "getitem" /\ BearsFloat(flip_index(op.index))) =>
        /\ img.domain = "None" => res = Raise("RuntimeError")
        /\ (img.domain # "None" /\ ~ExactlyTwoSlices(flip_index(op.index)))
           => res = Raise("ValueError")
        /\ res.k = "error" =>
              heap[MainBase] = before.pixels /\ img.domain = before.domain

\* C9: a composite changes the attached domain last: after a call that
\* returns, the domain is the drawable's when overwrite_domain holds and
\* use_host_domain does not, and the old one otherwise; a call fails when
\* the host domain is asked for and absent or when the drawable's domain,
\* mask or colour function fails, and a failed call leaves the old domain
\* and the old pixels.
CallMustFail ==
    \/ op.use_host_domain /\ before.domain = "None"
    \/ ~op.use_host_domain /\ op.f.domainfunc = "raises"
    \/ op.f.maskfunc = "raises"
    \/ op.f.colorfunc.t = "func" /\ op.f.colorfunc.f = "raises"
C9_DomainLast ==
    op.name = "call" =>
        /\ CallMustFail <=> res.k = "error"
        /\ (op.use_host_domain /\ before.domain = "None")
           => res = Raise("RuntimeError")
        /\ IF res.k = "error"
           THEN img.domain = before.domain /\ heap[MainBase] = before.pixels
           ELSE img.domain = IF op.overwrite_domain /\ ~op.use_host_domain
                             THEN op.f.domainfunc ELSE before.domain

\* A call that would have replaced the domain failed in the mask function.
C9_Witness ==
    /\ op.name = "call"
    /\ op.overwrite_domain /\ ~op.use_host_domain
    /\ res = Raise("MaskError")
    /\ before.domain = "corner"
    /\ op.f.domainfunc = "centred"

====
